---- MODULE Spec2Model ----
(***************************************************************************)
(* Conversational-session core of the WhatsApp webhook backend:            *)
(* routes/webhook.py (handle_webhook, get_model_response,                  *)
(* _background_after_reply) running on one cooperative scheduler, together *)
(* with the collaborators it calls: the session store and rollup           *)
(* controller (sessions.manager), the two write-behind queues and their    *)
(* drain workers (workers.queues), the durable user documents (models) and *)
(* the idle reaper.  A step of the model is the code a task executes       *)
(* between two suspension points (await).                                  *)
(***************************************************************************)
EXTENDS Integers, Sequences, FiniteSets, TLC

\* ------------------------------------------------------------------ bounds
NumHandlers == 2      \* webhook requests (turns) in one run
MaxTok == 1           \* largest token count the agent reports for a turn

\* ------------------------------------------------- configuration constants
RollupThreshold == 4  \* needs_rollup: history length that triggers a rollup
QueueCap == 1         \* capacity of each write-behind queue

Handlers == 1..NumHandlers
Users == {"A", "B"}
Roles == {"user", "assistant"}

\* A message of the history, identified by the turn that appended it.
\* Turn 0 is a turn of user "A" that was handled before the run starts.
Msg(t, r) == [turn |-> t, role |-> r]
Turn(t) == <<Msg(t, "user"), Msg(t, "assistant")>>

Range(s) == {s[i] : i \in 1..Len(s)}

VARIABLES
    sessions,           \* session_mgr: user id -> session (a dict: absent ids are not in DOMAIN)
    idle,               \* users whose session has lastActiveAt older than the idle threshold
    users_doc,          \* durable storage, users collection: user id -> {summary, totals}
    chat_log,           \* durable storage, chat log: sequence of persisted records
    user_upsert_queue,  \* workers.queues.user_upsert_queue
    chat_log_queue,     \* workers.queues.chat_log_queue
    upsert_job,         \* item held by the user-upsert drain worker (<<>> when it holds none)
    chat_job,           \* item held by the chat-log drain worker (<<>> when it holds none)
    hpc,                \* handle_webhook: position of each request
    huser,              \* handle_webhook: external_id of each request
    hres,               \* handle_webhook: <<input_tokens, output_tokens>> of the reply
    bgpc,               \* _background_after_reply: position of each turn's task
    snap,               \* rollup_history: the snapshot (summary, history) a rollup works on
    bgres,              \* history variable: how each turn's rollup and enqueues ended
    hcreate,            \* history variable: what create did for each request
    hcancel,            \* cancelled requests whose dispatched background update has not ended yet
    appendLog,          \* history variable: every message appended to the live session, in order
    rolledUp,           \* history variable: messages in the snapshot of a completed rollup
    doneMark,           \* history variable: latest snapshot point among completed rollups
    sinceSwap,          \* history variable: appends since the last completed rollup
    base,               \* history variable: summary and totals the live session started with
    incSum,             \* history variable: sum of the add_tokens increments applied
    flushed,            \* history variable: successful reaper flushes per user
    lastFlush,          \* history variable: the document the reaper's latest flush wrote, per user
    accepted,           \* history variable: turns whose item each queue accepted, in arrival order
    upsertLog           \* history variable: turns whose user record was persisted, in order

vars == <<sessions, idle, users_doc, chat_log, user_upsert_queue, chat_log_queue,
          upsert_job, chat_job, hpc, huser, hres, bgpc, snap, bgres,
          hcreate, hcancel, appendLog, rolledUp, doneMark, sinceSwap, base, incSum, flushed, lastFlush,
          accepted, upsertLog>>

storeVars == <<sessions, idle>>
durableVars == <<users_doc, chat_log>>
queueVars == <<user_upsert_queue, chat_log_queue>>
workerVars == <<upsert_job, chat_job>>
handlerVars == <<hpc, huser, hres, hcreate, hcancel>>
bgVars == <<bgpc, snap, bgres>>
rollupGhost == <<rolledUp, doneMark, sinceSwap>>
sessionGhost == <<appendLog, base, incSum>>
reaperGhost == <<flushed, lastFlush>>
queueGhost == <<accepted, upsertLog>>

\* --------------------------------------------------------- session store
\* sessions.manager.SessionManager, as section 4.1 of the specification gives it.

NewSession(summary, tin, tout) ==
    [history |-> <<>>, summary |-> summary,
     totalInputTokens |-> tin, totalOutputTokens |-> tout]

exists(u) == u \in DOMAIN sessions

Put(f, k, v) == [x \in DOMAIN f \cup {k} |-> IF x = k THEN v ELSE f[x]]
Remove(f, k) == [x \in DOMAIN f \ {k} |-> f[x]]

\* Variant of create that inserts the new session whether or not the id exists.
create_Overwrites(store, u, summary, tin, tout) ==
    Put(store, u, NewSession(summary, tin, tout))

\* create never overwrites: on an existing id the store is left as it is.
create(store, u, summary, tin, tout) ==
    IF u \in DOMAIN store THEN store
    ELSE Put(store, u, NewSession(summary, tin, tout))

append_message(s, m) == [s EXCEPT !.history = Append(@, m)]

add_tokens(s, tin, tout) ==
    [s EXCEPT !.totalInputTokens = @ + tin, !.totalOutputTokens = @ + tout]

needs_rollup(s) == Len(s.history) >= RollupThreshold

\* The external summarizer: the new summary reflects the previous summary
\* and the messages it was given.
summarize(prev, msgs) == prev \cup Range(msgs)

KeepLate(history, snapshot) ==
    SelectSeq(history, LAMBDA m : m \notin Range(snapshot))

\* Variant of replaceHistory that installs the summary and leaves the history.
replace_history_KeepsAll(s, snapshot, newSummary) ==
    [s EXCEPT !.summary = newSummary]

\* replaceHistory with the snapshot-then-merge policy: the snapshot's
\* messages go, the messages appended after the snapshot stay, in order.
replace_history(s, snapshot, newSummary) ==
    [s EXCEPT !.history = KeepLate(@, snapshot), !.summary = newSummary]

\* ------------------------------------------------------- durable storage
Doc(summary, tin, tout) ==
    [summary |-> summary, totalInputTokens |-> tin, totalOutputTokens |-> tout]

DocOf(s) == Doc(s.summary, s.totalInputTokens, s.totalOutputTokens)

NoDoc == Doc({}, 0, 0)

\* ---------------------------------------------------------------- queues
\* Variant of put_nowait that makes room by evicting the oldest item.
put_nowait_Evicts(q, item) ==
    IF Len(q) >= QueueCap
    THEN [queue |-> Append(Tail(q), item), full |-> FALSE]
    ELSE [queue |-> Append(q, item), full |-> FALSE]

\* Variant of put_nowait on a queue without a bound: every item is accepted.
put_nowait_Unbounded(q, item) == [queue |-> Append(q, item), full |-> FALSE]

\* asyncio.Queue.put_nowait on a bounded queue: raises QueueFull, and
\* leaves the queue as it is, when the queue is at capacity.
put_nowait(q, item) ==
    IF Len(q) >= QueueCap
    THEN [queue |-> q, full |-> TRUE]
    ELSE [queue |-> Append(q, item), full |-> FALSE]

NoJob == <<>>

EmptyMap == [x \in {} |-> 0]

\* ------------------------------------------------------------------ Init
NoSnap == [summary |-> {}, history |-> <<>>]

\* The run starts in one of three states of the process:
\*   "start"   the process has just started and user "A" is unknown;
\*   "live"    turn 0 of user "A" was handled: the session holds its two
\*             messages and its tokens, its chat-log record was persisted
\*             and its user record waits in the user-upsert queue;
\*   "retired" turn 0 was handled, rolled up, and the session was retired
\*             by the reaper: only the user's document is left.
\* User "B" is unknown in all three.
EarlierTokens == <<1, 1>>

EarlierSession ==
    [history |-> Turn(0), summary |-> {},
     totalInputTokens |-> EarlierTokens[1], totalOutputTokens |-> EarlierTokens[2]]

\* The user record the background update of turn 0 enqueued (lines 128-138).
EarlierRecord ==
    [externalId |-> "A", lastSeenAt |-> 0, totalInputTokens |-> EarlierTokens[1],
     totalOutputTokens |-> EarlierTokens[2], summary |-> {}]

InitAs(past) ==
    /\ sessions = IF past = "live" THEN [u \in {"A"} |-> EarlierSession] ELSE EmptyMap
    /\ users_doc = CASE past = "start" -> EmptyMap
                     [] past = "live" -> EmptyMap
                     [] past = "retired" ->
                          [u \in {"A"} |-> Doc(Range(Turn(0)), EarlierTokens[1], EarlierTokens[2])]
    /\ appendLog = [u \in Users |-> IF past = "live" /\ u = "A" THEN Turn(0) ELSE <<>>]
    /\ sinceSwap = [u \in Users |-> IF past = "live" /\ u = "A" THEN 2 ELSE 0]
    /\ incSum = [u \in Users |-> IF past = "live" /\ u = "A" THEN EarlierTokens ELSE <<0, 0>>]
    /\ idle = {}
    /\ chat_log = IF past = "live" THEN <<0>> ELSE <<>>
    /\ user_upsert_queue = IF past = "live" THEN <<EarlierRecord>> ELSE <<>>
    /\ chat_log_queue = <<>>
    /\ upsert_job = NoJob
    /\ chat_job = NoJob
    /\ hpc = [h \in Handlers |-> "init"]
    /\ huser = [h \in Handlers |-> "A"]
    /\ hres = [h \in Handlers |-> <<0, 0>>]
    /\ bgpc = [h \in Handlers |-> "none"]
    /\ snap = [h \in Handlers |-> NoSnap]
    /\ bgres = [h \in Handlers |-> [rollup |-> "none", put |-> "none"]]
    /\ hcreate = [h \in Handlers |-> "none"]
    /\ hcancel = {}
    /\ rolledUp = [u \in Users |-> {}]
    /\ doneMark = [u \in Users |-> 0]
    /\ base = [u \in Users |-> NoDoc]
    /\ flushed = [u \in Users |-> 0]
    /\ lastFlush = [u \in Users |-> NoDoc]
    /\ accepted = IF past = "live" THEN [upsert |-> <<0>>, chat |-> <<0>>]
                  ELSE [upsert |-> <<>>, chat |-> <<>>]
    /\ upsertLog = <<>>

Init == \E past \in {"start", "live", "retired"} : InitAs(past)

\* ------------------------------------------------------- handle_webhook
\* Token counts the agent reports: <<input_tokens, output_tokens>>.
AgentTokens == {<<i, MaxTok + 1 - i>> : i \in 1..MaxTok}

\* Requests are numbered in their order of arrival.
IsNext(h) == IF h = 1 THEN TRUE ELSE hpc[h - 1] # "init"

\* The users a request can come from: the first request of the run is
\* A's, a later one is anybody's.
Senders(h) == IF h = 1 THEN {"A"} ELSE Users

\* Lines 196-225: the payload is parsed and the session looked up.  With a
\* live session the handler goes straight into get_model_response (which
\* reads the session and awaits the agent); without one it awaits
\* load_session_summary.  Requests are taken in order of arrival.
ReceiveMessage(h) ==
    /\ hpc[h] = "init"
    /\ IsNext(h)
    /\ \E u \in Senders(h) :
        /\ huser' = [huser EXCEPT ![h] = u]
        /\ hpc' = [hpc EXCEPT ![h] = IF exists(u) THEN "asking" ELSE "loading"]
    /\ UNCHANGED <<storeVars, durableVars, queueVars, workerVars, hres, hcreate, hcancel, bgVars,
                   rollupGhost, sessionGhost, reaperGhost, queueGhost>>

\* Lines 199-222: no message in the payload, or a malformed payload.
RejectPayload(h) ==
    /\ hpc[h] = "init"
    /\ IsNext(h)
    /\ hpc' = [hpc EXCEPT ![h] = "error"]
    /\ UNCHANGED <<storeVars, durableVars, queueVars, workerVars, huser, hres, hcreate, hcancel, bgVars,
                   rollupGhost, sessionGhost, reaperGhost, queueGhost>>

\* The document load_session_summary returns: the user's durable snapshot,
\* or nothing.
LoadedDoc(u) ==
    IF u \in DOMAIN users_doc THEN users_doc[u] ELSE NoDoc

\* Lines 226-238: load_session_summary has returned; the session is created
\* from the document (or fresh), and get_model_response starts.
RestoreOrCreate(h) ==
    LET u == huser[h]
        doc == LoadedDoc(u)
        fresh == ~exists(u)
    IN  /\ hpc[h] = "loading"
        /\ sessions' = create(sessions, u, doc.summary,
                              doc.totalInputTokens, doc.totalOutputTokens)
        /\ idle' = IF fresh THEN idle \ {u} ELSE idle
        /\ hpc' = [hpc EXCEPT ![h] = "asking"]
        /\ appendLog' = IF fresh THEN [appendLog EXCEPT ![u] = <<>>] ELSE appendLog
        /\ rolledUp' = IF fresh THEN [rolledUp EXCEPT ![u] = {}] ELSE rolledUp
        /\ doneMark' = IF fresh THEN [doneMark EXCEPT ![u] = 0] ELSE doneMark
        /\ sinceSwap' = IF fresh THEN [sinceSwap EXCEPT ![u] = 0] ELSE sinceSwap
        /\ base' = IF fresh THEN [base EXCEPT ![u] = doc] ELSE base
        /\ incSum' = IF fresh THEN [incSum EXCEPT ![u] = <<0, 0>>] ELSE incSum
        /\ hcreate' = [hcreate EXCEPT ![h] = IF fresh THEN "created" ELSE "kept"]
        /\ UNCHANGED <<durableVars, queueVars, workerVars, huser, hres, hcancel, bgVars, reaperGhost, queueGhost>>

\* Lines 228-235 when another request created the session during the load
\* and create reports the existing session as a failure: the exception
\* leaves handle_webhook.
CreateRejected(h) ==
    /\ hpc[h] = "loading"
    /\ exists(huser[h])
    /\ hpc' = [hpc EXCEPT ![h] = "error"]
    /\ hcreate' = [hcreate EXCEPT ![h] = "rejected"]
    /\ UNCHANGED <<storeVars, durableVars, queueVars, workerVars, huser, hres, hcancel, bgVars,
                   rollupGhost, sessionGhost, reaperGhost, queueGhost>>

\* What mir_agent.ask gives back: a response with its token counts, or an
\* exception.
AgentResponses ==
    {[ok |-> TRUE, tokens |-> t] : t \in AgentTokens} \cup {[ok |-> FALSE, tokens |-> <<0, 0>>]}

\* Variant of get_model_response whose fallback reports the tokens of a
\* full turn.
get_model_response_FallbackCounts(found, resp) ==
    IF found /\ resp.ok THEN resp.tokens ELSE <<MaxTok, MaxTok>>

\* Lines 51-82: <<input_tokens, output_tokens>> of the result.  session_mgr.get
\* (line 52) raises when the session is not found and mir_agent.ask (line 66)
\* may raise; both exceptions end in the fallback of lines 75-82.  Nothing
\* in the function writes to the session store.
get_model_response(found, resp) ==
    IF found /\ resp.ok THEN resp.tokens ELSE <<0, 0>>

\* Lines 66-73 and 238-242: the agent answers with its token counts.
AgentReplies(h) ==
    /\ hpc[h] = "asking"
    /\ \E resp \in {r \in AgentResponses : r.ok} :
           hres' = [hres EXCEPT ![h] = get_model_response(TRUE, resp)]
    /\ hpc' = [hpc EXCEPT ![h] = "sending"]
    /\ UNCHANGED <<storeVars, durableVars, queueVars, workerVars, huser, hcreate, hcancel, bgVars,
                   rollupGhost, sessionGhost, reaperGhost, queueGhost>>

\* Lines 75-82: the agent call fails; the fallback reply counts no tokens.
AgentFails(h) ==
    /\ hpc[h] = "asking"
    /\ \E resp \in {r \in AgentResponses : ~r.ok} :
           hres' = [hres EXCEPT ![h] = get_model_response(TRUE, resp)]
    /\ hpc' = [hpc EXCEPT ![h] = "sending"]
    /\ UNCHANGED <<storeVars, durableVars, queueVars, workerVars, huser, hcreate, hcancel, bgVars,
                   rollupGhost, sessionGhost, reaperGhost, queueGhost>>

\* Variant of the handler's last step that awaits the background update:
\* the task is started and the handler does not return.
SendReplyOk_AwaitsTask(h) ==
    /\ hpc[h] = "sending"
    /\ bgpc[h] = "none"
    /\ bgpc' = [bgpc EXCEPT ![h] = "ready"]
    /\ UNCHANGED <<storeVars, durableVars, queueVars, workerVars, handlerVars,
                   snap, bgres, rollupGhost, sessionGhost, reaperGhost, queueGhost>>

\* Lines 244-266: send_text_message has returned; the background update is
\* handed to the scheduler (asyncio.create_task) and the handler returns.
SendReplyOk(h) ==
    /\ hpc[h] = "sending"
    /\ hpc' = [hpc EXCEPT ![h] = "done"]
    /\ bgpc' = [bgpc EXCEPT ![h] = "ready"]
    /\ UNCHANGED <<storeVars, durableVars, queueVars, workerVars, huser, hres, hcreate, hcancel,
                   snap, bgres, rollupGhost, sessionGhost, reaperGhost, queueGhost>>

\* Variant of the cancellation that takes the dispatched task down with the
\* request.
CancelRequest_CancelsTask(h) ==
    /\ hpc[h] = "done"
    /\ bgpc[h] \in {"ready", "summarizing"}
    /\ h \notin hcancel
    /\ hcancel' = hcancel \cup {h}
    /\ bgpc' = [bgpc EXCEPT ![h] = "done"]
    /\ snap' = [snap EXCEPT ![h] = NoSnap]
    /\ UNCHANGED <<storeVars, durableVars, queueVars, workerVars, hpc, huser, hres, hcreate,
                   bgres, rollupGhost, sessionGhost, reaperGhost, queueGhost>>

\* Lines 253-266: the request is cancelled or its client goes away after
\* the handler dispatched the background update.  The task made by
\* asyncio.create_task is a task of the event loop, not a child of the
\* request: nothing of it changes.
CancelRequest(h) ==
    /\ hpc[h] = "done"
    /\ bgpc[h] \in {"ready", "summarizing"}
    /\ h \notin hcancel
    /\ hcancel' = hcancel \cup {h}
    /\ UNCHANGED <<storeVars, durableVars, queueVars, workerVars, hpc, huser, hres, hcreate,
                   bgVars, rollupGhost, sessionGhost, reaperGhost, queueGhost>>

\* Lines 248-251: sending failed; the handler returns the error and starts
\* no background update.
SendReplyFails(h) ==
    /\ hpc[h] = "sending"
    /\ hpc' = [hpc EXCEPT ![h] = "error"]
    /\ UNCHANGED <<storeVars, durableVars, queueVars, workerVars, huser, hres, hcreate, hcancel, bgVars,
                   rollupGhost, sessionGhost, reaperGhost, queueGhost>>

\* ---------------------------------------------- _background_after_reply
\* Variant of the session update that appends the reply before the message.
TurnApplied_ReplyFirst(s, h) ==
    add_tokens(append_message(append_message(s, Msg(h, "assistant")), Msg(h, "user")),
               hres[h][1], hres[h][2])

\* Variant of the session update that records the user message only (the
\* reply and the tokens are left for a later step).
TurnApplied_UserOnly(s, h) == append_message(s, Msg(h, "user"))

\* Variant of the session update that leaves out add_tokens.
TurnApplied_NoTokens(s, h) ==
    append_message(append_message(s, Msg(h, "user")), Msg(h, "assistant"))

\* Lines 111-114: the turn's two messages and its token counts go into the
\* session.
TurnApplied(s, h) ==
    add_tokens(append_message(append_message(s, Msg(h, "user")), Msg(h, "assistant")),
               hres[h][1], hres[h][2])

UpsertRecord(h, s) ==
    [externalId |-> huser[h], lastSeenAt |-> h, totalInputTokens |-> s.totalInputTokens,
     totalOutputTokens |-> s.totalOutputTokens, summary |-> s.summary]

ChatRecord(h) ==
    [userId |-> huser[h], turn |-> h, inputTokens |-> hres[h][1],
     outputTokens |-> hres[h][2]]

\* Lines 123-152: the user record, then the chat-log record, are offered to
\* their queues.  QueueFull from the first put_nowait reaches the except
\* clause at once, so the second put_nowait is not executed.
WriteBehind(h, s) ==
    LET r1 == put_nowait(user_upsert_queue, UpsertRecord(h, s))
        r2 == put_nowait(chat_log_queue, ChatRecord(h))
    IN  IF r1.full
        THEN [upsert |-> r1.queue, chat |-> chat_log_queue, res |-> "upsert_full"]
        ELSE [upsert |-> r1.queue, chat |-> r2.queue,
              res |-> IF r2.full THEN "chat_full" ELSE "enqueued"]

\* The tail of the task (lines 123-152) on session state s, after a rollup
\* that ended as r.
Finish(h, s, r) ==
    LET w == WriteBehind(h, s)
    IN  /\ user_upsert_queue' = w.upsert
        /\ chat_log_queue' = w.chat
        /\ bgres' = [bgres EXCEPT ![h] = [rollup |-> r, put |-> w.res]]
        /\ bgpc' = [bgpc EXCEPT ![h] = "done"]
        /\ snap' = [snap EXCEPT ![h] = NoSnap]
        /\ hcancel' = hcancel \ {h}
        /\ accepted' =
               [upsert |-> IF w.res = "upsert_full" THEN accepted.upsert
                           ELSE Append(accepted.upsert, h),
                chat |-> IF w.res = "enqueued" THEN Append(accepted.chat, h)
                         ELSE accepted.chat]

\* Variant in which NotFound leaves the task and turns the turn's request
\* into a failed one.
NotFound_FailsRequest(h) ==
    /\ bgpc' = [bgpc EXCEPT ![h] = "done"]
    /\ bgres' = [bgres EXCEPT ![h] = [rollup |-> "none", put |-> "notfound"]]
    /\ snap' = [snap EXCEPT ![h] = NoSnap]
    /\ hcancel' = hcancel \ {h}
    /\ hpc' = [hpc EXCEPT ![h] = "error"]
    /\ UNCHANGED <<storeVars, queueVars, huser, hres, hcreate, rollupGhost, sessionGhost, accepted>>

\* NotFound from the session store is caught at line 151: the task ends.
NotFound(h) ==
    /\ bgpc' = [bgpc EXCEPT ![h] = "done"]
    /\ bgres' = [bgres EXCEPT ![h] = [rollup |-> "none", put |-> "notfound"]]
    /\ snap' = [snap EXCEPT ![h] = NoSnap]
    /\ hcancel' = hcancel \ {h}
    /\ UNCHANGED <<storeVars, queueVars, hpc, huser, hres, hcreate, rollupGhost, sessionGhost, accepted>>

\* Variant of the store in which rollup_history keeps the session locked
\* while it awaits the summarizer.
SessionFree_LockedByRollup(u) ==
    \A g \in Handlers : ~(bgpc[g] = "summarizing" /\ huser[g] = u)

\* The session store's operations take the session only for their own
\* duration: no lock is held across the summarizer call, so the session is
\* free whenever a task gets to run.
SessionFree(u) == TRUE

\* Lines 109-150 up to the first suspension point: the session is updated;
\* when a rollup is due rollup_history takes its snapshot and awaits the
\* summarizer, otherwise the task runs to its end.
BackgroundUpdate(h) ==
    LET u == huser[h]
    IN  /\ bgpc[h] = "ready"
        /\ SessionFree(u)
        /\ IF ~exists(u)
           THEN NotFound(h)
           ELSE LET s1 == TurnApplied(sessions[u], h)
                    log1 == appendLog[u] \o Turn(h)
                IN  /\ sessions' = [sessions EXCEPT ![u] = s1]
                    /\ idle' = idle \ {u}
                    /\ appendLog' = [appendLog EXCEPT ![u] = log1]
                    /\ sinceSwap' = [sinceSwap EXCEPT ![u] = @ + 2]
                    /\ incSum' = [incSum EXCEPT ![u] =
                                     <<@[1] + hres[h][1], @[2] + hres[h][2]>>]
                    /\ UNCHANGED <<rolledUp, doneMark, base, hpc, huser, hres, hcreate>>
                    /\ IF needs_rollup(s1)
                       THEN /\ snap' = [snap EXCEPT ![h] =
                                           [summary |-> s1.summary, history |-> s1.history]]
                            /\ bgpc' = [bgpc EXCEPT ![h] = "summarizing"]
                            /\ UNCHANGED <<queueVars, bgres, hcancel, accepted>>
                       ELSE Finish(h, s1, "none")
        /\ UNCHANGED <<durableVars, workerVars, reaperGhost, upsertLog>>

Max(a, b) == IF a >= b THEN a ELSE b

\* The place in the append log where a snapshot was taken: the position of
\* the snapshot's last message (0 when the log holds none of them).
SnapshotPoint(log, snapshot) ==
    LET at == {i \in 1..Len(log) : log[i] \in Range(snapshot)}
    IN  IF at = {} THEN 0 ELSE CHOOSE i \in at : \A j \in at : j <= i

\* Lines 120-150 after the summarizer returned a summary: rollup_history
\* swaps history and summary, then the task runs to its end.
RollupReturns(h) ==
    LET u == huser[h]
    IN  /\ bgpc[h] = "summarizing"
        /\ IF ~exists(u)
           THEN NotFound(h)
           ELSE LET s2 == replace_history(sessions[u], snap[h].history,
                                          summarize(snap[h].summary, snap[h].history))
                IN  /\ sessions' = [sessions EXCEPT ![u] = s2]
                    /\ rolledUp' = [rolledUp EXCEPT ![u] = @ \cup Range(snap[h].history)]
                    /\ doneMark' = [doneMark EXCEPT ![u] =
                                       Max(@, SnapshotPoint(appendLog[u], snap[h].history))]
                    /\ sinceSwap' = [sinceSwap EXCEPT ![u] = 0]
                    /\ Finish(h, s2, "swapped")
                    /\ UNCHANGED <<idle, sessionGhost, hpc, huser, hres, hcreate>>
        /\ UNCHANGED <<durableVars, workerVars, reaperGhost, upsertLog>>

\* Lines 120-150 after the summarizer failed: rollup_history abandons the
\* rollup without raising, and the task runs to its end.
RollupFails(h) ==
    LET u == huser[h]
    IN  /\ bgpc[h] = "summarizing"
        /\ IF ~exists(u)
           THEN NotFound(h)
           ELSE /\ Finish(h, sessions[u], "deferred")
                /\ UNCHANGED <<storeVars, rollupGhost, sessionGhost, hpc, huser, hres, hcreate>>
        /\ UNCHANGED <<durableVars, workerVars, reaperGhost, upsertLog>>

\* ---------------------------------------------------------- drain workers
\* One drain worker per queue: it takes the oldest item off the queue, then
\* calls the durable-storage operation, retrying a failed attempt a bounded
\* number of times.  The attempts change nothing another task can see, so
\* the item's processing has two outcomes: persisted, or discarded after
\* the last attempt failed.
Job(item) == <<item>>

\* upsertUser: the record replaces the user's summary and totals.
upsert_user(docs, rec) ==
    Put(docs, rec.externalId,
        Doc(rec.summary, rec.totalInputTokens, rec.totalOutputTokens))

UpsertDequeue ==
    /\ upsert_job = NoJob
    /\ user_upsert_queue # <<>>
    /\ upsert_job' = Job(Head(user_upsert_queue))
    /\ user_upsert_queue' = Tail(user_upsert_queue)
    /\ UNCHANGED <<storeVars, durableVars, chat_log_queue, chat_job, handlerVars, bgVars,
                   rollupGhost, sessionGhost, reaperGhost, queueGhost>>

UpsertPersistOk ==
    /\ upsert_job # NoJob
    /\ users_doc' = upsert_user(users_doc, upsert_job[1])
    /\ upsert_job' = NoJob
    /\ upsertLog' = Append(upsertLog, upsert_job[1].lastSeenAt)
    /\ UNCHANGED <<storeVars, chat_log, queueVars, chat_job, handlerVars, bgVars,
                   rollupGhost, sessionGhost, reaperGhost, accepted>>

UpsertDiscard ==
    /\ upsert_job # NoJob
    /\ upsert_job' = NoJob
    /\ UNCHANGED <<storeVars, durableVars, queueVars, chat_job, handlerVars, bgVars,
                   rollupGhost, sessionGhost, reaperGhost, queueGhost>>

ChatDequeue ==
    /\ chat_job = NoJob
    /\ chat_log_queue # <<>>
    /\ chat_job' = Job(Head(chat_log_queue))
    /\ chat_log_queue' = Tail(chat_log_queue)
    /\ UNCHANGED <<storeVars, durableVars, user_upsert_queue, upsert_job, handlerVars,
                   bgVars, rollupGhost, sessionGhost, reaperGhost, queueGhost>>

ChatPersistOk ==
    /\ chat_job # NoJob
    /\ chat_log' = Append(chat_log, chat_job[1].turn)
    /\ chat_job' = NoJob
    /\ UNCHANGED <<storeVars, users_doc, queueVars, upsert_job, handlerVars, bgVars,
                   rollupGhost, sessionGhost, reaperGhost, queueGhost>>

ChatDiscard ==
    /\ chat_job # NoJob
    /\ chat_job' = NoJob
    /\ UNCHANGED <<storeVars, durableVars, queueVars, upsert_job, handlerVars, bgVars,
                   rollupGhost, sessionGhost, reaperGhost, queueGhost>>

\* ------------------------------------------------------------ idle reaper
\* Time passes: the session's lastActiveAt falls behind the idle threshold.
IdleTimeout(u) ==
    /\ exists(u)
    /\ u \notin idle
    /\ idle' = idle \cup {u}
    /\ UNCHANGED <<sessions, durableVars, queueVars, workerVars, handlerVars, bgVars,
                   rollupGhost, sessionGhost, reaperGhost, queueGhost>>

\* The sweep reaches an idle session and its flush succeeds: the summary
\* and the totals are written to the user's document, then the session is
\* removed.
ReapFlushOk(u) ==
    /\ exists(u)
    /\ u \in idle
    /\ users_doc' = Put(users_doc, u, DocOf(sessions[u]))
    /\ sessions' = Remove(sessions, u)
    /\ idle' = idle \ {u}
    /\ flushed' = [flushed EXCEPT ![u] = @ + 1]
    /\ lastFlush' = [lastFlush EXCEPT ![u] = DocOf(sessions[u])]
    /\ appendLog' = [appendLog EXCEPT ![u] = <<>>]
    /\ rolledUp' = [rolledUp EXCEPT ![u] = {}]
    /\ doneMark' = [doneMark EXCEPT ![u] = 0]
    /\ sinceSwap' = [sinceSwap EXCEPT ![u] = 0]
    /\ base' = [base EXCEPT ![u] = NoDoc]
    /\ incSum' = [incSum EXCEPT ![u] = <<0, 0>>]
    /\ UNCHANGED <<chat_log, queueVars, workerVars, handlerVars, bgVars, queueGhost>>

\* Variant of the failed flush that removes the session all the same.
ReapFlushFails_Removes(u) ==
    /\ exists(u)
    /\ u \in idle
    /\ sessions' = Remove(sessions, u)
    /\ idle' = idle \ {u}
    /\ UNCHANGED <<durableVars, queueVars, workerVars, handlerVars, bgVars,
                   rollupGhost, sessionGhost, reaperGhost, queueGhost>>

\* The sweep reaches an idle session and its flush fails: the session stays,
\* and the flush is tried again on a later sweep.
ReapFlushFails(u) ==
    /\ exists(u)
    /\ u \in idle
    /\ UNCHANGED vars

\* ------------------------------------------------------------------ Next
Next ==
    \/ \E h \in Handlers : ReceiveMessage(h)
    \/ \E h \in Handlers : RejectPayload(h)
    \/ \E h \in Handlers : RestoreOrCreate(h)
    \/ \E h \in Handlers : CreateRejected(h)
    \/ \E h \in Handlers : AgentReplies(h)
    \/ \E h \in Handlers : AgentFails(h)
    \/ \E h \in Handlers : SendReplyOk(h)
    \/ \E h \in Handlers : SendReplyFails(h)
    \/ \E h \in Handlers : CancelRequest(h)
    \/ \E h \in Handlers : BackgroundUpdate(h)
    \/ \E h \in Handlers : RollupReturns(h)
    \/ \E h \in Handlers : RollupFails(h)
    \/ UpsertDequeue
    \/ UpsertPersistOk
    \/ UpsertDiscard
    \/ ChatDequeue
    \/ ChatPersistOk
    \/ ChatDiscard
    \/ \E u \in Users : IdleTimeout(u)
    \/ \E u \in Users : ReapFlushOk(u)
    \/ \E u \in Users : ReapFlushFails(u)

Spec == Init /\ [][Next]_vars

\* The reaper's sweep runs on a fixed interval for as long as the process
\* lives, and a flush that keeps being retried succeeds in the end.
FairSpec == Spec /\ \A u \in Users : WF_vars(ReapFlushOk(u))

\* The drain workers are long-lived tasks of the scheduler: a worker with an
\* item to take takes it, and the handling of a held item ends (persisted,
\* or discarded after the last retry).
DrainSpec ==
    /\ Spec
    /\ WF_vars(UpsertDequeue) /\ WF_vars(UpsertPersistOk \/ UpsertDiscard)
    /\ WF_vars(ChatDequeue) /\ WF_vars(ChatPersistOk \/ ChatDiscard)

\* ================================================================ claims

Live == DOMAIN sessions

Swapped(h) == bgres[h].rollup # "swapped" /\ bgres'[h].rollup = "swapped"

\* The messages appended to u's session after the snapshot was taken.
AppendedAfter(u, snapshot) ==
    SubSeq(appendLog[u], SnapshotPoint(appendLog[u], snapshot) + 1, Len(appendLog[u]))

\* C1: no message is lost to a rollup.  When a rollup replaces the history,
\* every message appended to the session after that rollup took its
\* snapshot is in the history afterwards, in the order of the appends.
\* Stated for the sessions the reaper never retired.
C1_LateMessagesKept ==
    [][\A h \in Handlers :
         (Swapped(h) /\ flushed[huser[h]] = 0) =>
             LET u == huser[h]
                 late == AppendedAfter(u, snap[h].history)
             IN  SelectSeq(sessions'[u].history, LAMBDA m : m \in Range(late)) = late]_vars

\* C7 as stated: the history's length is the number of appends since the
\* last rollup replaced the history.
C7_LengthSinceLastRollup ==
    \A u \in Live : Len(sessions[u].history) = sinceSwap[u]

\* C7, amended: the history is, in insertion order, exactly the messages
\* appended after the latest snapshot point among the completed rollups
\* (all messages appended since creation when no rollup has completed), so
\* its length is the number of appends since that snapshot.
C7_HistorySinceSnapshot ==
    \A u \in Live :
        sessions[u].history =
            SubSeq(appendLog[u], doneMark[u] + 1, Len(appendLog[u]))

\* A rollup has completed and messages appended after its snapshot are in
\* the history.
C7_Witness ==
    \E u \in Live : doneMark[u] > 0 /\ Len(sessions[u].history) >= 2

\* C10: the summary covers exactly the messages that were removed from the
\* history (the summary the session started with, plus every appended
\* message that is no longer in the history, and none that still is), and
\* a message that left the history never comes back.  Stated for the
\* sessions the reaper never retired, which include those with two
\* overlapping rollups.
C10_SummaryCoversRemoved ==
    /\ [](\A u \in Live :
            flushed[u] = 0 =>
                sessions[u].summary =
                    base[u].summary \cup (Range(appendLog[u]) \ Range(sessions[u].history)))
    /\ [][\A u \in Users :
            (u \in DOMAIN sessions /\ u \in DOMAIN sessions' /\ flushed[u] = 0) =>
                \A m \in Range(appendLog[u]) \ Range(sessions[u].history) :
                    m \notin Range(sessions'[u].history)]_vars

\* C2: creation never overwrites.  When a request that found no session and
\* awaited load_session_summary reaches create while the session exists
\* (another request created it meanwhile), the store is left exactly as it
\* is: history, summary and totals of the existing session stay, and the
\* durable snapshot is not restored over it.
C2_CreateNeverOverwrites ==
    [][\A h \in Handlers :
         (hpc[h] = "loading" /\ hpc'[h] # "loading" /\ exists(huser[h]))
             => sessions' = sessions]_vars

\* A request's create found a session that already holds messages.
C2_Witness ==
    \E h \in Handlers :
        /\ hcreate[h] = "kept"
        /\ huser[h] \in Live
        /\ sessions[huser[h]].history # <<>>

Removed(u) == u \in DOMAIN sessions /\ u \notin DOMAIN sessions'

Finished(h) == bgpc[h] # "done" /\ bgpc'[h] = "done"

\* C4: enqueue is drop-on-full and never blocks.  A background task that
\* reaches its enqueues ends in that same step whatever the queues hold;
\* a queue at capacity is left unchanged and the offered item is dropped;
\* and no request's handling is touched.
C4_DropOnFull ==
    [][\A h \in Handlers :
         (Finished(h) /\ bgres'[h].put # "notfound") =>
             /\ Len(user_upsert_queue) >= QueueCap =>
                    /\ user_upsert_queue' = user_upsert_queue
                    /\ bgres'[h].put = "upsert_full"
             /\ (Len(user_upsert_queue) < QueueCap /\ Len(chat_log_queue) >= QueueCap) =>
                    /\ chat_log_queue' = chat_log_queue
                    /\ bgres'[h].put = "chat_full"
             /\ (Len(user_upsert_queue) < QueueCap /\ Len(chat_log_queue) < QueueCap) =>
                    bgres'[h].put = "enqueued"
             /\ hpc' = hpc]_vars

\* A turn's user record was dropped by a full queue; its reply had been sent.
C4_Witness ==
    \E h \in Handlers :
        /\ bgres[h].put = "upsert_full"
        /\ hpc[h] = "done"
        /\ Len(user_upsert_queue) = QueueCap

\* C5: the request path never waits for background work.  The handler
\* returns in the step in which the reply was sent; in that step the turn's
\* background task is only handed to the scheduler, and the session store
\* and the queues are untouched; and no background task exists for a
\* request that has not returned.
C5_ReplyBeforeBackground ==
    /\ [](\A h \in Handlers : bgpc[h] # "none" => hpc[h] = "done")
    /\ [][\A h \in Handlers :
            (hpc[h] = "sending" /\ hpc'[h] = "done") =>
                /\ bgpc[h] = "none"
                /\ bgpc'[h] = "ready"
                /\ UNCHANGED <<sessions, user_upsert_queue, chat_log_queue>>]_vars

\* A request has returned while its turn's rollup is still waiting for the
\* summarizer.
C5_Witness ==
    \E h \in Handlers : hpc[h] = "done" /\ bgpc[h] = "summarizing"

\* C6: the token totals of a session are the totals it was created or
\* restored with plus the sum of the increments applied, and neither total
\* decreases in a step that keeps the session.
C6_TokenTotals ==
    /\ [](\A u \in Live :
            /\ sessions[u].totalInputTokens = base[u].totalInputTokens + incSum[u][1]
            /\ sessions[u].totalOutputTokens = base[u].totalOutputTokens + incSum[u][2])
    /\ [][\A u \in Users :
            (u \in DOMAIN sessions /\ u \in DOMAIN sessions') =>
                /\ sessions'[u].totalInputTokens >= sessions[u].totalInputTokens
                /\ sessions'[u].totalOutputTokens >= sessions[u].totalOutputTokens]_vars

\* A restored session that had increments applied by two turns, with a
\* rollup in between.
C6_Witness ==
    \E u \in Live :
        /\ base[u].totalInputTokens > 0
        /\ incSum[u][1] >= 2
        /\ rolledUp[u] # {}

\* C8: right after a successful rollup the history contains only messages
\* appended after the rollup's snapshot was taken, and the summary is the
\* non-empty value the summarizer returned for the snapshot's summary and
\* history.
C8_AfterRollup ==
    [][\A h \in Handlers :
         Swapped(h) =>
             LET u == huser[h]
             IN  /\ Range(sessions'[u].history)
                        \subseteq Range(AppendedAfter(u, snap[h].history))
                 /\ sessions'[u].summary = summarize(snap[h].summary, snap[h].history)
                 /\ sessions'[u].summary # {}]_vars

\* A rollup succeeded and left in the history the messages appended while
\* it ran, none of which the summary covers.
C8_Witness ==
    \E h \in Handlers :
        /\ bgres[h].rollup = "swapped"
        /\ huser[h] \in Live
        /\ sessions[huser[h]].history # <<>>
        /\ sessions[huser[h]].summary # {}
        /\ Range(sessions[huser[h]].history) \cap sessions[huser[h]].summary = {}

Deferred(h) == bgres[h].rollup # "deferred" /\ bgres'[h].rollup = "deferred"

\* C9: when the summarizer fails, the rollup leaves the session store as it
\* is and needs_rollup still holds for the session (so that the next turn
\* tries the rollup again).  Stated for the sessions the reaper never
\* retired.
C9_FailedRollupRetried ==
    [][\A h \in Handlers :
         (Deferred(h) /\ flushed[huser[h]] = 0) =>
             /\ sessions' = sessions
             /\ needs_rollup(sessions'[huser[h]])]_vars

Summarizing(u) == \E g \in Handlers : bgpc[g] = "summarizing" /\ huser[g] = u

\* C11: while a rollup of a session is waiting for the summarizer no lock
\* is held: every background update that is ready to run (append_message,
\* add_tokens, get), for the same session or another one, can take its step,
\* and so can the next request (exists, get); and a background update that
\* runs while a rollup of its session is waiting appends its turn and adds
\* its tokens in that very step.
C11_NoLockWhileSummarizing ==
    /\ [](\A h \in Handlers :
            (\E u \in Users : Summarizing(u)) =>
                /\ bgpc[h] = "ready" => ENABLED BackgroundUpdate(h)
                /\ (hpc[h] = "init" /\ IsNext(h)) => ENABLED ReceiveMessage(h))
    /\ [][\A h \in Handlers :
            (bgpc[h] = "ready" /\ bgpc'[h] # "ready" /\ Summarizing(huser[h])
                 /\ exists(huser[h])) =>
                LET u == huser[h]
                IN  /\ sessions'[u].history = sessions[u].history \o Turn(h)
                    /\ sessions'[u].totalInputTokens =
                           sessions[u].totalInputTokens + hres[h][1]]_vars

\* A rollup of A's session is waiting for the summarizer, and meanwhile a
\* turn was appended to the same session after the snapshot was taken.
C11_Witness ==
    \E g \in Handlers :
        /\ bgpc[g] = "summarizing"
        /\ huser[g] \in Live
        /\ Len(sessions[huser[g]].history) > Len(snap[g].history)
        /\ sessions[huser[g]].totalInputTokens > EarlierTokens[1] + hres[g][1]

\* C12: a failure inside a turn's background update (NotFound from the
\* session store, a failed summarizer call, a full queue) stays inside the
\* task: in the step in which it happens the task ends normally, the
\* turn's request stays answered, no request's handling changes, and no
\* other background task is touched.
C12_BackgroundFailuresAbsorbed ==
    [][\A h \in Handlers :
         (bgpc'[h] # bgpc[h] /\ bgpc[h] \in {"ready", "summarizing"}
              /\ (\/ bgres'[h].put \in {"notfound", "upsert_full", "chat_full"}
                  \/ bgres'[h].rollup = "deferred")) =>
             /\ bgpc'[h] = "done"
             /\ hpc[h] = "done"
             /\ hpc' = hpc
             /\ \A g \in Handlers \ {h} :
                    bgpc'[g] = bgpc[g] /\ snap'[g] = snap[g] /\ bgres'[g] = bgres[g]]_vars

\* One turn's rollup was deferred and its user record dropped by the full
\* queue, while the other turn's records were enqueued and both requests
\* stay answered.
C12_Witness ==
    \E h, g \in Handlers :
        /\ bgres[h] = [rollup |-> "deferred", put |-> "upsert_full"]
        /\ bgres[g].put = "enqueued"
        /\ hpc[h] = "done" /\ hpc[g] = "done"

\* C13: the two queues are independent.  When a background task reaches
\* its enqueues, the turn's chat-log record is enqueued exactly when the
\* chat-log queue has free capacity, and the turn's user record exactly
\* when the user-upsert queue has free capacity, whatever the other queue
\* holds.
C13_QueuesIndependent ==
    [][\A h \in Handlers :
         (Finished(h) /\ bgres'[h].put # "notfound") =>
             /\ chat_log_queue' =
                    IF Len(chat_log_queue) < QueueCap
                    THEN Append(chat_log_queue, ChatRecord(h))
                    ELSE chat_log_queue
             /\ Len(user_upsert_queue') =
                    IF Len(user_upsert_queue) < QueueCap
                    THEN Len(user_upsert_queue) + 1
                    ELSE Len(user_upsert_queue)]_vars

\* C14: cancelling a request that has dispatched its background update
\* does not cancel the update.  The cancellation leaves the task, the
\* session store and the queues as they are; the task's next step stays
\* enabled; and when the task of a cancelled request runs it appends the
\* turn to the session it finds and reaches its enqueues as any other task.
C14_DispatchedSurvivesCancel ==
    /\ [](\A h \in hcancel :
            /\ bgpc[h] # "none"
            /\ bgpc[h] = "ready" => ENABLED BackgroundUpdate(h)
            /\ bgpc[h] = "summarizing" => ENABLED RollupReturns(h))
    /\ [][\A h \in Handlers :
            /\ (h \notin hcancel /\ h \in hcancel') =>
                   UNCHANGED <<bgVars, sessions, user_upsert_queue, chat_log_queue>>
            /\ (h \in hcancel /\ bgpc[h] = "ready" /\ bgpc'[h] # "ready"
                    /\ exists(huser[h])) =>
                   /\ sessions'[huser[h]].history = sessions[huser[h]].history \o Turn(h)
                   /\ bgpc'[h] \in {"summarizing", "done"}
            /\ (h \in hcancel /\ Finished(h) /\ exists(huser[h])) =>
                   bgres'[h].put \in {"enqueued", "upsert_full", "chat_full"}]_vars

\* The background update of a cancelled request has appended its turn and
\* is waiting for the summarizer.
C14_Witness ==
    \E h \in hcancel :
        /\ bgpc[h] = "summarizing"
        /\ huser[h] \in Live
        /\ Msg(h, "assistant") \in Range(sessions[huser[h]].history)
        /\ Msg(h, "assistant") \in Range(snap[h].history)

SeqMap(q, f(_)) == [i \in 1..Len(q) |-> f(q[i])]
TurnOfChat(rec) == rec.turn
TurnOfUpsert(rec) == rec.lastSeenAt

\* The turns whose item is held by a worker or waits in its queue, oldest
\* first.
ChatPending == SeqMap(chat_job \o chat_log_queue, TurnOfChat)
UpsertPending == SeqMap(upsert_job \o user_upsert_queue, TurnOfUpsert)

\* seq holds no turn twice and lists its turns in the order they have in of.
InOrderOf(seq, of) ==
    SelectSeq(of, LAMBDA t : t \in Range(seq)) = seq

C16_ModelResponseNeverRaises ==
    /\ [](\A resp \in AgentResponses :
            /\ get_model_response(FALSE, resp) = <<0, 0>>
            /\ ~resp.ok => get_model_response(TRUE, resp) = <<0, 0>>
            /\ resp.ok => get_model_response(TRUE, resp) = resp.tokens)
    /\ [][\A h \in Handlers :
            (hpc[h] = "asking" /\ hpc'[h] # "asking") =>
                /\ hpc'[h] = "sending"
                /\ sessions' = sessions
                /\ hres'[h] \in AgentTokens \cup {<<0, 0>>}]_vars

\* The agent call of a request failed while the user's session holds
\* messages: the fallback's zero counts are what the handler goes on with.
C16_Witness ==
    \E h \in Handlers :
        /\ hpc[h] = "sending"
        /\ hres[h] = <<0, 0>>
        /\ huser[h] \in Live
        /\ sessions[huser[h]].history # <<>>

\* C17: at most one rollup is in flight per session: no two background
\* updates of the same user wait for the summarizer at the same time.
C17_SingleRollupInFlight ==
    \A h, g \in Handlers :
        (h # g /\ bgpc[h] = "summarizing" /\ bgpc[g] = "summarizing")
            => huser[h] # huser[g]

\* seq is made of whole turns: each user message is followed at once by the
\* assistant reply of the same turn.
WholeTurns(seq) ==
    /\ Len(seq) % 2 = 0
    /\ \A i \in 1..Len(seq) :
           IF i % 2 = 1
           THEN seq[i].role = "user" /\ seq[i + 1] = Msg(seq[i].turn, "assistant")
           ELSE seq[i].role = "assistant"

\* The turns that were appended to u's live session.
TurnsOf(u) == {m.turn : m \in Range(appendLog[u])}

TokensOf(t) == IF t = 0 THEN EarlierTokens ELSE hres[t]

RECURSIVE SumTokens(_, _)
SumTokens(T, k) ==
    IF T = {} THEN 0
    ELSE LET t == CHOOSE x \in T : TRUE
         IN  TokensOf(t)[k] + SumTokens(T \ {t}, k)

\* C18: a turn is recorded atomically.  In every state, so in every state
\* another handler, background task, rollup or the reaper can see, the
\* history of a session and the snapshot of every rollup are made of whole
\* turns (even length, user and assistant alternating, each user message
\* with its turn's reply), also after a rollup merged late messages; and
\* the totals hold the token counts of exactly the turns that were
\* appended.
C18_TurnRecordedAtomically ==
    /\ \A u \in Live :
           /\ WholeTurns(sessions[u].history)
           /\ sessions[u].totalInputTokens =
                  base[u].totalInputTokens + SumTokens(TurnsOf(u), 1)
           /\ sessions[u].totalOutputTokens =
                  base[u].totalOutputTokens + SumTokens(TurnsOf(u), 2)
    /\ \A h \in Handlers : WholeTurns(snap[h].history)

\* A rollup merged: the history holds one whole turn that was appended
\* while the summarizer ran, and another rollup's snapshot holds three.
C18_Witness ==
    \E h, g \in Handlers :
        /\ bgres[h].rollup = "swapped"
        /\ bgpc[g] = "summarizing"
        /\ huser[g] \in Live
        /\ sessions[huser[g]].history = Turn(g)
        /\ Len(snap[g].history) = 6

\* C19: reaping followed by restore loses nothing.  When a request creates
\* the session of a user whose session the reaper retired, the session
\* starts with the summary and the totals that the reaper's latest flush
\* wrote for that user, whatever user records were drained in between.
C19_RestoreAfterReap ==
    [][\A h \in Handlers :
         (hpc[h] = "loading" /\ hcreate'[h] = "created" /\ flushed[huser[h]] > 0) =>
             DocOf(sessions'[huser[h]]) = lastFlush[huser[h]]]_vars

\* C20: every turn whose reply was sent is recorded.  The background update
\* is the only code that records a turn and it runs once per turn, so the
\* turn is recorded exactly if that run appends it: when the background
\* update of a turn takes its first step, the user's session exists
\* afterwards and holds the turn's two messages and its token counts.
C20_SentTurnRecorded ==
    [][\A h \in Handlers :
         (hpc[h] = "done" /\ bgpc[h] = "ready" /\ bgpc'[h] # "ready") =>
             LET u == huser[h]
             IN  /\ u \in DOMAIN sessions'
                 /\ Msg(h, "user") \in Range(sessions'[u].history)
                 /\ Msg(h, "assistant") \in Range(sessions'[u].history)
                 /\ u \in DOMAIN sessions
                 /\ sessions'[u].totalInputTokens = sessions[u].totalInputTokens + hres[h][1]]_vars

====
